---- MODULE Spec2Model ----
(***************************************************************************)
(* Model of src/src/core/ollama_client.py (the OllamaClient facade, the    *)
(* simple_chat function and the get_ollama_client singleton accessor) and  *)
(* of the runner main() of src/test_ollama.py.                             *)
(*                                                                         *)
(* The program is single-threaded.  Each action is one complete call of a  *)
(* facade method (or one complete run of the script); the remote client's  *)
(* answer to every call the method makes is an input of the action.        *)
(***************************************************************************)
EXTENDS Integers, Sequences, FiniteSets, TLC

(***************************************************************************)
(* Bounds of the model.                                                    *)
(***************************************************************************)
MaxModels == 2      \* longest model list the remote list call returns
MaxHistory == 4     \* longest message sequence given to chat_with_history
MaxConstruct == 2   \* most OllamaClient constructions in one process

(***************************************************************************)
(* Python values.  One record shape for None, str, int/float and {}.       *)
(* Temperatures are kept in tenths (0.7 is PyInt(7)).                      *)
(***************************************************************************)
PyNone == [t |-> "none", n |-> 0, s |-> ""]
PyStr(x) == [t |-> "str", n |-> 0, s |-> x]
PyInt(k) == [t |-> "int", n |-> k, s |-> ""]
PyEmptyDict == [t |-> "dict", n |-> 0, s |-> ""]

\* Python truthiness, as used by `if system_prompt:` and by `a or b`.
Truthy(v) ==
    CASE v.t = "none" -> FALSE
      [] v.t = "str"  -> v.s # ""
      [] v.t = "int"  -> v.n # 0
      [] OTHER        -> FALSE

\* Python `a or b`.
PyOr(a, b) == IF Truthy(a) THEN a ELSE b

(***************************************************************************)
(* Exceptions.  ResponseError and the built-in errors raised by the        *)
(* response handling are all subclasses of Exception.                      *)
(***************************************************************************)
ExceptionClasses ==
    {"ResponseError", "ConnectionError", "AttributeError", "TypeError", "KeyError"}

IsInstance(exc, cls) ==
    \/ exc = cls
    \/ cls = "Exception" /\ exc \in ExceptionClasses

\* How a call (or the body of a try block) ended.
Returned(v) == [exc |-> "none", value |-> v]
Raised(e) == [exc |-> e, value |-> PyNone]

(***************************************************************************)
(* Program constants.                                                      *)
(***************************************************************************)
DefaultTemperature == 7        \* temperature: float = 0.7
DefaultMaxTokens == 1000       \* max_tokens: int = 1000
DefaultHost == "http://localhost:11434"
DefaultModelName == "gemma3:27b"
SimpleChatDefaultModel == "gemma3:1b"

(***************************************************************************)
(* Answers of the remote client.                                           *)
(***************************************************************************)
ErrorMessages == {"model not found"}
StatusCodes == {404, 500}

\* A call of the remote client either raises ResponseError(error,
\* status_code), raises a generic exception, or returns a response.
ResponseErrors ==
    {[kind |-> "ResponseError", error |-> e, status_code |-> c] :
        e \in ErrorMessages, c \in StatusCodes}
GenericErrors == {[kind |-> "ConnectionError", error |-> "connection refused", status_code |-> 0]}
RemoteErrors == ResponseErrors \cup GenericErrors

\* str(e) of the exception exc caught while the remote answer was o: the
\* remote error's message, or the text of an error raised by the handling of
\* a returned response.
ExcText(o, exc) == IF o.kind = exc THEN PyStr(o.error) ELSE PyStr(exc)

(***************************************************************************)
(* Model entries of a list response.  An entry is a structured object      *)
(* (kind "obj": its attributes are the domain of f) or a plain mapping     *)
(* (kind "dict": its keys are the domain of f).  Every structured entry    *)
(* carries the attribute `model`, as the entries of the client library do; *)
(* any other attribute may be absent, present, or present and None.        *)
(***************************************************************************)
ModelNames == {"m1", "m2"}

ObjAttrs ==
    {("model" :> PyStr(nm)) : nm \in ModelNames}
    \cup {("model" :> PyStr("m1")) @@ ("size" :> PyInt(4096))}
    \cup {("model" :> PyStr("m1")) @@ ("size" :> PyNone) @@ ("modified_at" :> PyNone)
            @@ ("digest" :> PyNone) @@ ("details" :> PyNone)}
    \cup {("model" :> PyStr("m2")) @@ ("size" :> PyInt(4096)) @@ ("modified_at" :> PyStr("2025-01-01"))
            @@ ("digest" :> PyStr("sha256")) @@ ("details" :> PyEmptyDict)}

DictKeys ==
    {("name" :> PyStr(nm)) @@ ("size" :> PyInt(4096)) : nm \in ModelNames}
    \cup {("size" :> PyInt(4096))}

ObjEntries == {[kind |-> "obj", f |-> g] : g \in ObjAttrs}
DictEntries == {[kind |-> "dict", f |-> g] : g \in DictKeys}
Entries == ObjEntries \cup DictEntries

SeqsUpTo(S, k) == UNION {[1..j -> S] : j \in 0..k}

\* The value the remote list call returns.  shape "noget": a value without
\* a get method (None, a list); "nokey": a mapping without the key 'models';
\* "null": a mapping whose 'models' is None; "list": a mapping whose 'models'
\* is a sequence of entries.
ListResponses ==
    {[kind |-> "ok", shape |-> sh, models |-> <<>>] : sh \in {"noget", "nokey", "null"}}
    \cup {[kind |-> "ok", shape |-> "list", models |-> ms] : ms \in SeqsUpTo(Entries, MaxModels)}
ListOutcomes == ListResponses \cup RemoteErrors

\* hasattr(e, a), getattr(e, a, d) and m.get(k, d).
HasAttr(e, a) == e.kind = "obj" /\ a \in DOMAIN e.f
GetAttr(e, a, d) == IF HasAttr(e, a) THEN e.f[a] ELSE d
DictGet(e, k, d) == IF k \in DOMAIN e.f THEN e.f[k] ELSE d

\* A log record: logger.<level>(f"<fmt> {args...}").
LogEntry(level, fmt, args) == [level |-> level, fmt |-> fmt, args |-> args]

\* client.list(): raises, or returns the response.
ClientList(o) == IF o.kind = "ok" THEN Returned(o) ELSE Raised(o.kind)

\* response.get('models', []) : the value, or the exception it raises.
\* models is [none |-> TRUE] for None.
GetModels(resp) ==
    CASE resp.shape = "noget" -> [exc |-> "AttributeError", none |-> FALSE, items |-> <<>>]
      [] resp.shape = "nokey" -> [exc |-> "none", none |-> FALSE, items |-> <<>>]
      [] resp.shape = "null"  -> [exc |-> "none", none |-> TRUE, items |-> <<>>]
      [] OTHER                -> [exc |-> "none", none |-> FALSE, items |-> resp.models]

(***************************************************************************)
(* OllamaClient.test_connection                                            *)
(***************************************************************************)
\* The try block: list, then len(models.get('models', [])).
TestConnectionBody(o) ==
    LET r == ClientList(o) IN
    IF r.exc # "none" THEN [exc |-> r.exc, count |-> 0]
    ELSE LET g == GetModels(o) IN
         IF g.exc # "none" THEN [exc |-> g.exc, count |-> 0]
         ELSE IF g.none THEN [exc |-> "TypeError", count |-> 0]
         ELSE [exc |-> "none", count |-> Len(g.items)]

test_connection(o) ==
    LET b == TestConnectionBody(o) IN
    IF b.exc = "none"
    THEN [ret |-> [kind |-> "bool", b |-> TRUE],
          log |-> <<LogEntry("info", "connected, model count", <<PyInt(b.count)>>)>>,
          remote |-> <<[api |-> "list"]>>]
    ELSE IF IsInstance(b.exc, "Exception")
    THEN [ret |-> [kind |-> "bool", b |-> FALSE],
          log |-> <<LogEntry("error", "connection failed", <<ExcText(o, b.exc)>>)>>,
          remote |-> <<[api |-> "list"]>>]
    ELSE [ret |-> [kind |-> "raised", exc |-> b.exc], log |-> <<>>, remote |-> <<[api |-> "list"]>>]

(***************************************************************************)
(* OllamaClient.list_models                                                *)
(***************************************************************************)
\* ProcessModel with None as the default of every absent attribute.
ProcessModelNoneDefaults(e) ==
    IF HasAttr(e, "model")
    THEN [kind |-> "dict",
          f |-> ("name" :> e.f["model"])
                @@ ("size" :> GetAttr(e, "size", PyNone))
                @@ ("modified_at" :> GetAttr(e, "modified_at", PyNone))
                @@ ("digest" :> GetAttr(e, "digest", PyNone))
                @@ ("details" :> GetAttr(e, "details", PyNone))]
    ELSE e

\* One round of the conversion loop.
ProcessModel(e) ==
    IF HasAttr(e, "model")
    THEN [kind |-> "dict",
          f |-> ("name" :> e.f["model"])
                @@ ("size" :> GetAttr(e, "size", PyInt(0)))
                @@ ("modified_at" :> GetAttr(e, "modified_at", PyNone))
                @@ ("digest" :> GetAttr(e, "digest", PyStr("")))
                @@ ("details" :> GetAttr(e, "details", PyEmptyDict))]
    ELSE e

\* The try block: list, get, the loop.
ListModelsBody(o) ==
    LET r == ClientList(o) IN
    IF r.exc # "none" THEN [exc |-> r.exc, items |-> <<>>]
    ELSE LET g == GetModels(o) IN
         IF g.exc # "none" THEN [exc |-> g.exc, items |-> <<>>]
         ELSE IF g.none THEN [exc |-> "TypeError", items |-> <<>>]
         ELSE [exc |-> "none", items |-> [i \in 1..Len(g.items) |-> ProcessModel(g.items[i])]]

list_models(o) ==
    LET b == ListModelsBody(o) IN
    IF b.exc = "none"
    THEN [ret |-> [kind |-> "list", items |-> b.items], log |-> <<>>, remote |-> <<[api |-> "list"]>>]
    ELSE IF IsInstance(b.exc, "Exception")
    THEN [ret |-> [kind |-> "list", items |-> <<>>],
          log |-> <<LogEntry("error", "list models failed", <<ExcText(o, b.exc)>>)>>,
          remote |-> <<[api |-> "list"]>>]
    ELSE [ret |-> [kind |-> "raised", exc |-> b.exc], log |-> <<>>, remote |-> <<[api |-> "list"]>>]

(***************************************************************************)
(* The chat and generate calls of the remote client.                       *)
(***************************************************************************)
ReplyTexts == {"", "reply"}

\* A returned chat response: "full" has response['message']['content'];
\* "nomessage" lacks 'message', "nocontent" lacks 'content' (KeyError);
\* "none" is not subscriptable (TypeError).
ChatResponses ==
    {[kind |-> "ok", shape |-> "full", content |-> PyStr(x)] : x \in ReplyTexts}
    \cup {[kind |-> "ok", shape |-> sh, content |-> PyNone] : sh \in {"nomessage", "nocontent", "none"}}
ChatOutcomes == ChatResponses \cup RemoteErrors

\* A returned generate response: "full" has response['response'].
GenerateResponses ==
    {[kind |-> "ok", shape |-> "full", content |-> PyStr(x)] : x \in ReplyTexts}
    \cup {[kind |-> "ok", shape |-> sh, content |-> PyNone] : sh \in {"noresponse", "none"}}
GenerateOutcomes == GenerateResponses \cup RemoteErrors

\* response['message']['content'] and response['response'].
Subscript(o) ==
    CASE o.shape = "full" -> Returned(o.content)
      [] o.shape = "none" -> Raised("TypeError")
      [] OTHER            -> Raised("KeyError")

\* client.chat(...) / client.generate(...) followed by the subscripting.
CallAndRead(o) == IF o.kind = "ok" THEN Subscript(o) ELSE Raised(o.kind)

Message(role, content) == [role |-> role, content |-> content]

(***************************************************************************)
(* OllamaClient.generate_response                                          *)
(***************************************************************************)
\* BuildMessages with `if system_prompt is not None:` as its test.
BuildMessagesIsNotNone(prompt, system_prompt) ==
    (IF system_prompt # PyNone THEN <<Message("system", system_prompt)>> ELSE <<>>)
    \o <<Message("user", prompt)>>

\* messages = []; if system_prompt: append system; append user.
BuildMessages(prompt, system_prompt) ==
    (IF Truthy(system_prompt) THEN <<Message("system", system_prompt)>> ELSE <<>>)
    \o <<Message("user", prompt)>>

\* GenerationHandlers without the `except Exception` clause.
GenerationHandlersResponseErrorOnly(o, b, req) ==
    IF b.exc = "none"
    THEN [ret |-> [kind |-> "val", v |-> b.value], log |-> <<>>, remote |-> <<req>>]
    ELSE IF IsInstance(b.exc, "ResponseError")
    THEN [ret |-> [kind |-> "val", v |-> PyNone],
          log |-> <<LogEntry("error", "response error, status code",
                             <<PyStr(o.error), PyInt(o.status_code)>>)>>,
          remote |-> <<req>>]
    ELSE [ret |-> [kind |-> "raised", exc |-> b.exc], log |-> <<>>, remote |-> <<req>>]

\* The handlers of generate_response and generate_simple.
GenerationHandlers(o, b, req) ==
    IF b.exc = "none"
    THEN [ret |-> [kind |-> "val", v |-> b.value], log |-> <<>>, remote |-> <<req>>]
    ELSE IF IsInstance(b.exc, "ResponseError")
    THEN [ret |-> [kind |-> "val", v |-> PyNone],
          log |-> <<LogEntry("error", "response error, status code",
                             <<PyStr(o.error), PyInt(o.status_code)>>)>>,
          remote |-> <<req>>]
    ELSE IF IsInstance(b.exc, "Exception")
    THEN [ret |-> [kind |-> "val", v |-> PyNone],
          log |-> <<LogEntry("error", "generation failed", <<ExcText(o, b.exc)>>)>>,
          remote |-> <<req>>]
    ELSE [ret |-> [kind |-> "raised", exc |-> b.exc], log |-> <<>>, remote |-> <<req>>]

generate_response(self, prompt, model, system_prompt, temperature, max_tokens, o) ==
    LET req == [api |-> "chat",
                model |-> PyOr(model, self.model_name),
                messages |-> BuildMessages(prompt, system_prompt),
                options |-> [temperature |-> temperature, num_predict |-> max_tokens]]
    IN  GenerationHandlers(o, CallAndRead(o), req)

(***************************************************************************)
(* OllamaClient.generate_with_personality                                  *)
(***************************************************************************)
\* generate_with_personality without its temperature argument.
generate_with_personality_default_temperature(self, prompt, personality_prompt, model, o) ==
    generate_response(self, prompt, model, personality_prompt, DefaultTemperature,
                      DefaultMaxTokens, o)

generate_with_personality(self, prompt, personality_prompt, model, o) ==
    generate_response(self, prompt, model, personality_prompt, 8, DefaultMaxTokens, o)

(***************************************************************************)
(* OllamaClient.generate_simple                                            *)
(***************************************************************************)
generate_simple(self, prompt, model, o) ==
    LET req == [api |-> "generate", model |-> PyOr(model, self.model_name), prompt |-> prompt]
    IN  GenerationHandlers(o, CallAndRead(o), req)

(***************************************************************************)
(* OllamaClient.chat_with_history                                          *)
(***************************************************************************)
\* ChatHistoryRequest sending only the last message (messages[-1:]).
ChatHistoryRequestLastOnly(self, messages, model, temperature) ==
    [api |-> "chat",
     model |-> PyOr(model, self.model_name),
     messages |-> IF messages = <<>> THEN <<>> ELSE <<messages[Len(messages)]>>,
     options |-> [temperature |-> temperature]]

ChatHistoryRequest(self, messages, model, temperature) ==
    [api |-> "chat",
     model |-> PyOr(model, self.model_name),
     messages |-> messages,
     options |-> [temperature |-> temperature]]

chat_with_history(self, messages, model, temperature, o) ==
    LET req == ChatHistoryRequest(self, messages, model, temperature)
        b == CallAndRead(o)
    IN  IF b.exc = "none"
        THEN [ret |-> [kind |-> "val", v |-> b.value], log |-> <<>>, remote |-> <<req>>]
        ELSE IF IsInstance(b.exc, "ResponseError")
        THEN [ret |-> [kind |-> "val", v |-> PyNone],
              log |-> <<LogEntry("error", "chat error", <<PyStr(o.error)>>)>>,
              remote |-> <<req>>]
        ELSE IF IsInstance(b.exc, "Exception")
        THEN [ret |-> [kind |-> "val", v |-> PyNone],
              log |-> <<LogEntry("error", "chat failed", <<ExcText(o, b.exc)>>)>>,
              remote |-> <<req>>]
        ELSE [ret |-> [kind |-> "raised", exc |-> b.exc], log |-> <<>>, remote |-> <<req>>]

(***************************************************************************)
(* OllamaClient.pull_model_if_needed                                       *)
(***************************************************************************)
PullOutcomes == {[kind |-> "ok"]} \cup RemoteErrors

\* NamesBody reading the key 'model' instead of 'name'.
NamesBodyModelKey(models) ==
    IF \E i \in 1..Len(models) : models[i].kind # "dict"
    THEN [exc |-> "AttributeError", names |-> <<>>]
    ELSE [exc |-> "none", names |-> [i \in 1..Len(models) |-> DictGet(models[i], "model", PyStr(""))]]

\* model_names = [m.get('name', '') for m in models]; an entry without a
\* get method raises AttributeError.
NamesBody(models) ==
    IF \E i \in 1..Len(models) : models[i].kind # "dict"
    THEN [exc |-> "AttributeError", names |-> <<>>]
    ELSE [exc |-> "none", names |-> [i \in 1..Len(models) |-> DictGet(models[i], "name", PyStr(""))]]

\* `model in model_names`
InList(x, xs) == \E i \in 1..Len(xs) : xs[i] = x

\* lo answers the list call of list_models, po the pull call (when made).
pull_model_if_needed(model, lo, po) ==
    LET lm == list_models(lo)
        nb == IF lm.ret.kind = "list" THEN NamesBody(lm.ret.items)
              ELSE [exc |-> lm.ret.exc, names |-> <<>>]
        pullReq == [api |-> "pull", model |-> model]
        downloading == LogEntry("info", "downloading", <<model>>)
        fail(exc, o, pre, rem) ==
            IF IsInstance(exc, "Exception")
            THEN [ret |-> [kind |-> "bool", b |-> FALSE],
                  log |-> pre \o <<LogEntry("error", "pull failed", <<ExcText(o, exc)>>)>>,
                  remote |-> rem]
            ELSE [ret |-> [kind |-> "raised", exc |-> exc], log |-> pre, remote |-> rem]
    IN  IF nb.exc # "none" THEN fail(nb.exc, lo, lm.log, lm.remote)
        ELSE IF InList(model, nb.names)
        THEN [ret |-> [kind |-> "bool", b |-> TRUE],
              log |-> lm.log \o <<LogEntry("info", "model exists", <<model>>)>>,
              remote |-> lm.remote]
        ELSE IF po.kind # "ok"
        THEN fail(po.kind, po, lm.log \o <<downloading>>, lm.remote \o <<pullReq>>)
        ELSE [ret |-> [kind |-> "bool", b |-> TRUE],
              log |-> lm.log \o <<downloading, LogEntry("info", "downloaded", <<model>>)>>,
              remote |-> lm.remote \o <<pullReq>>]

(***************************************************************************)
(* simple_chat (module-level, calls ollama.chat directly)                  *)
(***************************************************************************)
\* os.getenv(key, default): the value when set, the default otherwise.
Getenv(env, key, default) == IF env[key] = PyNone THEN PyStr(default) ELSE env[key]

simple_chat(message, model, env, o) ==
    LET m == IF model = PyNone THEN Getenv(env, "MODEL_NAME", SimpleChatDefaultModel) ELSE model
        req == [api |-> "chat", model |-> m, messages |-> <<Message("user", message)>>]
        b == CallAndRead(o)
    IN  IF b.exc = "none"
        THEN [ret |-> [kind |-> "val", v |-> b.value], log |-> <<>>, remote |-> <<req>>]
        ELSE IF IsInstance(b.exc, "Exception")
        THEN [ret |-> [kind |-> "val", v |-> PyNone],
              log |-> <<LogEntry("error", "simple chat failed", <<ExcText(o, b.exc)>>)>>,
              remote |-> <<req>>]
        ELSE [ret |-> [kind |-> "raised", exc |-> b.exc], log |-> <<>>, remote |-> <<req>>]

(***************************************************************************)
(* OllamaClient.__init__ and get_ollama_client                             *)
(***************************************************************************)
EnvKeys == {"OLLAMA_HOST", "MODEL_NAME"}
Environs ==
    {("OLLAMA_HOST" :> h) @@ ("MODEL_NAME" :> m) :
        h \in {PyNone, PyStr("http://gpu:11434")}, m \in {PyNone, PyStr("m1")}}
NoEnviron == ("OLLAMA_HOST" :> PyNone) @@ ("MODEL_NAME" :> PyNone)

\* __init__(host, model_name): `x or os.getenv(...)` reads the environment
\* only when the argument is falsy; Client(host=...) then returns or raises.
\* id is the identity of the new object.
OllamaClientInit(id, host, model_name, env, clientOk) ==
    LET h == PyOr(host, Getenv(env, "OLLAMA_HOST", DefaultHost))
        m == PyOr(model_name, Getenv(env, "MODEL_NAME", DefaultModelName))
        reads == (IF Truthy(host) THEN 0 ELSE 1) + (IF Truthy(model_name) THEN 0 ELSE 1)
    IN  [exc |-> IF clientOk THEN "none" ELSE "ValueError",
         self |-> [id |-> id, host |-> h, model_name |-> m],
         reads |-> reads]

\* The object no facade has: id 0.
NoClient == [id |-> 0, host |-> PyNone, model_name |-> PyNone]

\* get_ollama_client without the `is None` test.
MustConstructAlways(c) == TRUE

\* `if _ollama_client is None:`
MustConstruct(c) == c = NoClient

(***************************************************************************)
(* test_ollama.py: the import line and main()                              *)
(***************************************************************************)
\* The names src/core/ollama_client.py binds at module level.
ModuleNames ==
    {"ollama", "Client", "ResponseError", "os", "Dict", "List", "Optional", "Any",
     "load_dotenv", "logging", "logger", "OllamaClient", "simple_chat",
     "_ollama_client", "get_ollama_client"}

\* from src.core.ollama_client import ...
ImportedNames == {"OllamaClient", "get_ollama_client", "simple_chat", "simple_generate"}

\* The tests list of main(), in order.
Tests ==
    <<"test_basic_connection", "test_model_availability", "test_simple_functions",
      "test_client_generation", "test_personality_generation", "test_chat_history">>

\* What one test function does when called.
TestOutcomes == {"true", "false", "raise"}

\* main(): the loop over tests, each call inside its own try block, then the
\* tally.  ran is the sequence of test functions called.
main(outcomes) ==
    [exit |-> "ok",
     ran |-> Tests,
     results |-> [i \in 1..Len(Tests) |->
                    [name |-> Tests[i],
                     result |-> IF outcomes[i] = "raise" THEN FALSE ELSE outcomes[i] = "true"]],
     success_count |-> Cardinality({i \in 1..Len(Tests) : outcomes[i] = "true"})]

\* Running the script: the imports of line 9, then main().
run_script(outcomes) ==
    IF ImportedNames \subseteq ModuleNames
    THEN main(outcomes)
    ELSE [exit |-> "ImportError", ran |-> <<>>, results |-> <<>>, success_count |-> 0]

\* get_ollama_client(): c is the module variable, id the identity a newly
\* constructed facade would get, clientOk whether its construction returns.
get_ollama_client(c, id, env, clientOk) ==
    IF MustConstruct(c)
    THEN LET i == OllamaClientInit(id, PyNone, PyNone, env, clientOk) IN
         IF i.exc = "none"
         THEN [exc |-> "none", client |-> i.self, var |-> i.self, inits |-> 1, reads |-> i.reads]
         ELSE [exc |-> i.exc, client |-> NoClient, var |-> c, inits |-> 1, reads |-> i.reads]
    ELSE [exc |-> "none", client |-> c, var |-> c, inits |-> 0, reads |-> 0]

(***************************************************************************)
(* State.                                                                  *)
(*   op, args       the last call made and its inputs (the remote answers  *)
(*                  included)                                              *)
(*   remote         the requests that call sent to the remote client       *)
(*   log            the records that call logged                           *)
(*   result         what that call returned (or the exception it let out)  *)
(*   imported       whether src.core.ollama_client has been imported       *)
(*   environ        the process environment after load_dotenv()            *)
(*   _ollama_client the module variable of the singleton                   *)
(*   constructed    how many times OllamaClient.__init__ has run           *)
(*   getenvCalls    how many times os.getenv has been called by __init__   *)
(*   got            the last constructor or accessor call and its outcome  *)
(***************************************************************************)
VARIABLES op, args, remote, log, result,
          imported, environ, _ollama_client, constructed, getenvCalls, got

callVars == <<op, args, remote, log, result>>
moduleVars == <<imported, environ, _ollama_client, constructed, getenvCalls, got>>
vars == <<op, args, remote, log, result,
          imported, environ, _ollama_client, constructed, getenvCalls, got>>

Init ==
    /\ op = "none"
    /\ args = [none |-> TRUE]
    /\ remote = <<>>
    /\ log = <<>>
    /\ result = [kind |-> "none"]
    /\ imported = FALSE
    /\ environ = NoEnviron
    /\ _ollama_client = NoClient
    /\ constructed = 0
    /\ getenvCalls = 0
    /\ got = [op |-> "none", exc |-> "none", client |-> NoClient]

(***************************************************************************)
(* Inputs of the facade calls.                                             *)
(***************************************************************************)
Facades ==
    {[id |-> 1, host |-> PyStr(DefaultHost), model_name |-> PyStr(mn)] :
        mn \in {DefaultModelName, "m1"}}
Prompts == {PyStr("hello"), PyStr("")}
ModelArgs == {PyNone, PyStr(""), PyStr("m2")}
SystemPrompts == {PyNone, PyStr(""), PyStr("be brief")}
Temperatures == {5, DefaultTemperature}
MaxTokens == {100, DefaultMaxTokens}
PullArgs == {PyStr(""), PyStr("m1"), PyStr("m3")}
HistoryMessages ==
    {Message("system", PyStr("be brief")), Message("user", PyStr("hello")),
     Message("assistant", PyStr("hi")), Message("user", PyStr(""))}

TestConnection ==
    /\ op = "none"
    /\ \E o \in ListOutcomes :
        LET r == test_connection(o) IN
        /\ op' = "test_connection"
        /\ args' = [o |-> o]
        /\ remote' = r.remote
        /\ log' = r.log
        /\ result' = r.ret
    /\ UNCHANGED moduleVars

ListModels ==
    /\ op = "none"
    /\ \E o \in ListOutcomes :
        LET r == list_models(o) IN
        /\ op' = "list_models"
        /\ args' = [o |-> o]
        /\ remote' = r.remote
        /\ log' = r.log
        /\ result' = r.ret
    /\ UNCHANGED moduleVars

GenerateResponse ==
    /\ op = "none"
    /\ \E self \in Facades, prompt \in Prompts, model \in ModelArgs,
          sp \in SystemPrompts, t \in Temperatures, mt \in MaxTokens, o \in ChatOutcomes :
        LET r == generate_response(self, prompt, model, sp, t, mt, o) IN
        /\ op' = "generate_response"
        /\ args' = [self |-> self, prompt |-> prompt, model |-> model, system_prompt |-> sp,
                     temperature |-> t, max_tokens |-> mt, o |-> o]
        /\ remote' = r.remote
        /\ log' = r.log
        /\ result' = r.ret
    /\ UNCHANGED moduleVars

GenerateWithPersonality ==
    /\ op = "none"
    /\ \E self \in Facades, prompt \in Prompts, pp \in SystemPrompts \ {PyNone},
          model \in ModelArgs, o \in ChatOutcomes :
        LET r == generate_with_personality(self, prompt, pp, model, o) IN
        /\ op' = "generate_with_personality"
        /\ args' = [self |-> self, prompt |-> prompt, personality_prompt |-> pp,
                     model |-> model, o |-> o]
        /\ remote' = r.remote
        /\ log' = r.log
        /\ result' = r.ret
    /\ UNCHANGED moduleVars

GenerateSimple ==
    /\ op = "none"
    /\ \E self \in Facades, prompt \in Prompts, model \in ModelArgs, o \in GenerateOutcomes :
        LET r == generate_simple(self, prompt, model, o) IN
        /\ op' = "generate_simple"
        /\ args' = [self |-> self, prompt |-> prompt, model |-> model, o |-> o]
        /\ remote' = r.remote
        /\ log' = r.log
        /\ result' = r.ret
    /\ UNCHANGED moduleVars

ChatWithHistory ==
    /\ op = "none"
    /\ \E self \in Facades, messages \in SeqsUpTo(HistoryMessages, MaxHistory),
          model \in ModelArgs, t \in Temperatures, o \in ChatOutcomes :
        LET r == chat_with_history(self, messages, model, t, o) IN
        /\ op' = "chat_with_history"
        /\ args' = [self |-> self, messages |-> messages, model |-> model,
                     temperature |-> t, o |-> o]
        /\ remote' = r.remote
        /\ log' = r.log
        /\ result' = r.ret
    /\ UNCHANGED moduleVars

PullModelIfNeeded ==
    /\ op = "none"
    /\ \E model \in PullArgs, lo \in ListOutcomes, po \in PullOutcomes :
        LET r == pull_model_if_needed(model, lo, po) IN
        /\ op' = "pull_model_if_needed"
        /\ args' = [model |-> model, lo |-> lo, po |-> po]
        /\ remote' = r.remote
        /\ log' = r.log
        /\ result' = r.ret
    /\ UNCHANGED moduleVars

SimpleChat ==
    /\ op = "none"
    /\ \E message \in Prompts, model \in ModelArgs, env \in Environs, o \in ChatOutcomes :
        LET r == simple_chat(message, model, env, o) IN
        /\ op' = "simple_chat"
        /\ args' = [message |-> message, model |-> model, env |-> env, o |-> o]
        /\ remote' = r.remote
        /\ log' = r.log
        /\ result' = r.ret
    /\ UNCHANGED moduleVars

\* One run of `python test_ollama.py`; outcomes is what each test function
\* would do when called.
RunSmokeTests ==
    /\ op = "none"
    /\ \E outcomes \in [1..Len(Tests) -> TestOutcomes] :
        LET r == run_script(outcomes) IN
        /\ op' = "test_ollama"
        /\ args' = [outcomes |-> outcomes]
        /\ remote' = <<>>
        /\ log' = <<>>
        /\ result' = [kind |-> "run", exit |-> r.exit, ran |-> r.ran,
                      results |-> r.results, success_count |-> r.success_count]
    /\ UNCHANGED moduleVars

\* The caller is done with the value the call returned; the next call starts
\* from scratch (the facade keeps nothing between calls).
CallReturns ==
    /\ op # "none"
    /\ op' = "none"
    /\ args' = [none |-> TRUE]
    /\ remote' = <<>>
    /\ log' = <<>>
    /\ result' = [kind |-> "none"]
    /\ UNCHANGED moduleVars

Next ==
    \/ TestConnection
    \/ ListModels
    \/ GenerateResponse
    \/ GenerateWithPersonality
    \/ GenerateSimple
    \/ ChatWithHistory
    \/ PullModelIfNeeded
    \/ SimpleChat
    \/ RunSmokeTests
    \/ CallReturns

Spec == Init /\ [][Next]_vars

(***************************************************************************)
(* The module as a process: import, constructor calls, accessor calls.     *)
(***************************************************************************)
\* import src.core.ollama_client: load_dotenv() fixes the environment the
\* module reads, and the module variable is bound to None.
ImportModule ==
    /\ ~imported
    /\ imported' = TRUE
    /\ environ' \in Environs
    /\ _ollama_client' = NoClient
    /\ got' = [op |-> "import", exc |-> "none", client |-> NoClient]
    /\ UNCHANGED <<constructed, getenvCalls>>
    /\ UNCHANGED callVars

\* A caller constructs a facade of its own: OllamaClient(host, model_name).
Construct ==
    /\ imported
    /\ constructed < MaxConstruct
    /\ \E host \in {PyNone, PyStr("http://other:11434")}, model_name \in {PyNone, PyStr("m2")},
          clientOk \in BOOLEAN :
        LET i == OllamaClientInit(constructed + 1, host, model_name, environ, clientOk) IN
        /\ constructed' = constructed + 1
        /\ getenvCalls' = getenvCalls + i.reads
        /\ got' = [op |-> "OllamaClient", exc |-> i.exc,
                   client |-> IF i.exc = "none" THEN i.self ELSE NoClient]
    /\ UNCHANGED <<imported, environ, _ollama_client>>
    /\ UNCHANGED callVars

GetOllamaClient ==
    /\ imported
    /\ MustConstruct(_ollama_client) => constructed < MaxConstruct
    /\ \E clientOk \in BOOLEAN :
        LET r == get_ollama_client(_ollama_client, constructed + 1, environ, clientOk) IN
        /\ _ollama_client' = r.var
        /\ constructed' = constructed + r.inits
        /\ getenvCalls' = getenvCalls + r.reads
        /\ got' = [op |-> "get_ollama_client", exc |-> r.exc, client |-> r.client]
    /\ UNCHANGED <<imported, environ>>
    /\ UNCHANGED callVars

NextModule ==
    \/ ImportModule
    \/ Construct
    \/ GetOllamaClient

SpecModule == Init /\ [][NextModule]_vars

(***************************************************************************)
(* Properties.                                                             *)
(***************************************************************************)
FacadeMethods ==
    {"test_connection", "list_models", "generate_response", "generate_with_personality",
     "generate_simple", "chat_with_history", "pull_model_if_needed"}
GenerationMethods ==
    {"generate_response", "generate_with_personality", "generate_simple", "chat_with_history"}

\* Whether the call sent a pull request.
PullIssued == \E i \in 1..Len(remote) : remote[i].api = "pull"

\* C1: no exception escapes a facade method, whatever the remote client
\* does (a response of any shape, a ResponseError, a generic exception); a
\* remote error becomes the sentinel of the method: False for
\* test_connection and pull_model_if_needed, [] for list_models, None for
\* the generation methods.
C1_NoExceptionEscapes ==
    /\ op \in FacadeMethods => result.kind # "raised"
    /\ op = "test_connection" =>
        /\ result.kind = "bool"
        /\ args.o.kind # "ok" => result.b = FALSE
    /\ op = "list_models" =>
        /\ result.kind = "list"
        /\ args.o.kind # "ok" => result.items = <<>>
    /\ op \in GenerationMethods =>
        /\ result.kind = "val"
        /\ args.o.kind # "ok" => result.v = PyNone
    /\ op = "pull_model_if_needed" =>
        /\ result.kind = "bool"
        /\ (PullIssued /\ args.po.kind # "ok") => result.b = FALSE

\* A generic exception of the remote generate call became None.
C1_Witness ==
    /\ op = "generate_simple"
    /\ args.o.kind = "ConnectionError"
    /\ result = [kind |-> "val", v |-> PyNone]

\* C2 (as claimed): test_connection returns True exactly when the list call
\* returns, whatever it returns, and False exactly when it raises.
C2_TrueIffListReturns ==
    op = "test_connection" =>
        /\ result.kind = "bool"
        /\ result.b = (args.o.kind = "ok")

C4_ResponseErrorLoggedWithStatus ==
    (op \in GenerationMethods /\ args.o.kind = "ResponseError") =>
        /\ result = [kind |-> "val", v |-> PyNone]
        /\ \E i \in 1..Len(log) :
            /\ log[i].level = "error"
            /\ \E j \in 1..Len(log[i].args) : log[i].args[j] = PyStr(args.o.error)
            /\ \E j \in 1..Len(log[i].args) : log[i].args[j] = PyInt(args.o.status_code)

\* The names of the entries list_models() returned to pull_model_if_needed.
ListedNames ==
    LET items == list_models(args.lo).ret.items IN
    {DictGet(items[i], "name", PyStr("")) : i \in 1..Len(items)}

\* C5: pull_model_if_needed(m) returns True without a pull call when m is
\* among the names list_models() returned; it issues the pull call (once,
\* for m) exactly when m is not among them, the failed list call included,
\* and then returns True iff the pull call returns.
C5_PullOnlyWhenAbsent ==
    op = "pull_model_if_needed" =>
        /\ args.model \in ListedNames => (result = [kind |-> "bool", b |-> TRUE] /\ ~PullIssued)
        /\ PullIssued <=> args.model \notin ListedNames
        /\ PullIssued =>
            /\ remote = <<[api |-> "list"], [api |-> "pull", model |-> args.model]>>
            /\ result.kind = "bool"
            /\ result.b = (args.po.kind = "ok")

\* The list call failed, so the model was pulled, and the pull returned.
C5_Witness ==
    /\ op = "pull_model_if_needed"
    /\ args.lo.kind # "ok"
    /\ PullIssued
    /\ args.po.kind = "ok"
    /\ result = [kind |-> "bool", b |-> TRUE]

\* The model was listed: True, and no pull call.
C5_WitnessPresent ==
    /\ op = "pull_model_if_needed"
    /\ args.model \in ListedNames
    /\ ~PullIssued
    /\ result = [kind |-> "bool", b |-> TRUE]

\* C6 (as claimed): a run of the script calls the six tests once each, in
\* order, whatever each returns or raises, records one result per test in
\* that order (False for a test that raised), reaches the tally, and ends
\* without an error.
C6_AllSixRunAndTallied ==
    op = "test_ollama" =>
        /\ result.exit = "ok"
        /\ result.ran = Tests
        /\ Len(result.results) = Len(Tests)
        /\ \A i \in 1..Len(result.results) :
            /\ result.results[i].name = Tests[i]
            /\ result.results[i].result = (args.outcomes[i] = "true")

\* C7: the module variable is written at most once; an accessor call made
\* when it is set returns that same object, runs no constructor and reads no
\* configuration; an accessor call whose construction raises leaves it unset;
\* the first call whose construction returns sets it to the object returned.
C7_SingletonWrittenOnce ==
    [][ /\ _ollama_client # NoClient => _ollama_client' = _ollama_client
        /\ got'.op = "get_ollama_client" =>
            /\ _ollama_client # NoClient =>
                /\ got'.exc = "none"
                /\ got'.client = _ollama_client
                /\ constructed' = constructed
                /\ getenvCalls' = getenvCalls
            /\ got'.exc # "none" => _ollama_client' = NoClient
            /\ (_ollama_client = NoClient /\ got'.exc = "none") =>
                /\ _ollama_client' # NoClient
                /\ _ollama_client' = got'.client
      ]_vars

\* The accessor returned the singleton (the first object constructed) after
\* a second facade had been constructed.
C7_Witness ==
    /\ got.op = "get_ollama_client"
    /\ got.exc = "none"
    /\ got.client = _ollama_client
    /\ _ollama_client.id = 1
    /\ constructed = 2

\* C8: the one chat request of generate_with_personality carries temperature
\* 0.8 (8 tenths), whatever the prompt, the personality prompt and the model,
\* and the call returns what generate_response returns for system_prompt =
\* personality_prompt and temperature = 0.8.
C8_PersonalityTemperature ==
    op = "generate_with_personality" =>
        /\ Len(remote) = 1
        /\ remote[1].api = "chat"
        /\ remote[1].options.temperature = 8
        /\ remote[1].options.temperature # DefaultTemperature
        /\ result = generate_response(args.self, args.prompt, args.model,
                                      args.personality_prompt, 8, DefaultMaxTokens,
                                      args.o).ret

\* A personality request was answered.
C8_Witness ==
    /\ op = "generate_with_personality"
    /\ args.personality_prompt = PyStr("be brief")
    /\ args.o.kind = "ok"
    /\ remote[1].options.temperature = 8
    /\ result = [kind |-> "val", v |-> PyStr("reply")]

\* C9: chat_with_history sends one chat request whose messages are the
\* caller's sequence itself (same length, order, roles and contents); it
\* returns the reply text of a well-formed response and None on a remote
\* error.
C9_HistoryForwardedVerbatim ==
    op = "chat_with_history" =>
        /\ Len(remote) = 1
        /\ remote[1].api = "chat"
        /\ remote[1].messages = args.messages
        /\ (args.o.kind = "ok" /\ args.o.shape = "full") =>
            result = [kind |-> "val", v |-> args.o.content]
        /\ args.o.kind # "ok" => result = [kind |-> "val", v |-> PyNone]

\* A conversation of four messages ending in a user question was forwarded
\* and answered.
C9_Witness ==
    /\ op = "chat_with_history"
    /\ args.messages = <<Message("system", PyStr("be brief")), Message("user", PyStr("hello")),
                         Message("assistant", PyStr("hi")), Message("user", PyStr(""))>>
    /\ remote[1].messages = args.messages
    /\ args.o.kind = "ok"
    /\ result = [kind |-> "val", v |-> PyStr("reply")]

\* C10 (as claimed): generate_response sends one chat request whose messages
\* are system(system_prompt), user(prompt) whenever a system_prompt is given,
\* the empty string included, and user(prompt) alone when none is given.
C10_SystemMessageWheneverGiven ==
    op = "generate_response" =>
        /\ Len(remote) = 1
        /\ remote[1].api = "chat"
        /\ remote[1].messages =
            IF args.system_prompt # PyNone
            THEN <<Message("system", args.system_prompt), Message("user", args.prompt)>>
            ELSE <<Message("user", args.prompt)>>

\* C10 (amended): generate_response sends one chat request whose messages
\* are system(system_prompt), user(prompt) when system_prompt is a non-empty
\* string, and user(prompt) alone when it is not given or is the empty
\* string; the user message is last.
C10_SystemMessageWhenNonEmpty ==
    op = "generate_response" =>
        /\ Len(remote) = 1
        /\ remote[1].api = "chat"
        /\ remote[1].messages =
            IF args.system_prompt # PyNone /\ args.system_prompt # PyStr("")
            THEN <<Message("system", args.system_prompt), Message("user", args.prompt)>>
            ELSE <<Message("user", args.prompt)>>
        /\ remote[1].messages[Len(remote[1].messages)] = Message("user", args.prompt)

\* generate_response was called with the empty string as system_prompt and
\* sent the user message alone.
C10_Witness ==
    /\ op = "generate_response"
    /\ args.system_prompt = PyStr("")
    /\ remote[1].messages = <<Message("user", args.prompt)>>

====
